---- MODULE Spec2Model ----
(***************************************************************************)
(* Model of the reactions package: the flyweight reaction entities         *)
(* (ProtoReaction, Reaction, ProductionReaction), their intern caches, the *)
(* reaction categories with calc_target, the reaction rates and the        *)
(* serialization protocol.                                                 *)
(*                                                                         *)
(* Python values are modelled as follows.                                  *)
(*   - a nuclide (ZAID / Isotope) is a record [Z, A, m];                   *)
(*   - a type tag is a string; TypusChars gives its characters;            *)
(*   - a float is an integer (rates and weights are counted in tenths);    *)
(*   - a dict is the set of its <<key, value>> items;                      *)
(*   - an optional dict is a record [none, items];                         *)
(*   - an object reference is a record [key, n]: the identity key the      *)
(*     object was allocated for and the number of objects allocated for    *)
(*     that key before it, so that two allocations never share a name.     *)
(***************************************************************************)
EXTENDS Integers, Sequences, FiniteSets, TLC

VARIABLES
    protoMembers,   \* ProtoReaction._members_ : identity key -> reference
    protoObjs,      \* heap of ProtoReaction objects : reference -> object
    reacMembers,    \* Reaction._members_ : set of dict entries
    reacObjs,       \* heap of Reaction objects : reference -> object
    prodMembers,    \* ProductionReaction._members_ : identity key -> reference
    prodObjs,       \* heap of ProductionReaction objects : reference -> object
    handed,         \* history: per kind, <<key, reference>> of every successful construction
    world,          \* the parent and category the requests of this run are about
    ret,            \* outcome of the last operation
    calcIn,         \* input of the pure-function specification (category, parent)
    calcOut,        \* its output
    thr,            \* the threads of the concurrent specification
    thrMembers,     \* the intern cache the threads share
    thrNext,        \* the next free reference of the threads' heap
    rateObjs,       \* the ReactionRate objects of the rate specification, in allocation order
    rateRet         \* outcome of the last operation on a rate

vars == <<protoMembers, protoObjs, reacMembers, reacObjs, prodMembers, prodObjs,
          handed, world, ret, calcIn, calcOut, thr, thrMembers, thrNext,
          rateObjs, rateRet>>


-----------------------------------------------------------------------------
(* Bounds of the model. *)

\* The number of interned objects, of all three kinds together, a run allocates.
MaxObjs == 3

-----------------------------------------------------------------------------
(* Nuclides and the external nuclide catalog. *)

Nuclide(z, a, m) == [Z |-> z, A |-> a, m |-> m]

H1 == Nuclide(1, 1, 0)
H2 == Nuclide(1, 2, 0)
U235 == Nuclide(92, 235, 0)
sink == Nuclide(0, 0, 0)

\* ZAID -> integer encoding used in the JSON envelope (external catalog).
ZaidToInt(n) == n.Z * 10000 + n.A * 10 + n.m

\* Isotope.from_int_with_fallback (external catalog).
from_int_with_fallback(i) == Nuclide(i \div 10000, (i % 10000) \div 10, i % 10)

\* Isotope.from_zaid_with_fallback (external catalog): the catalog entry, or a
\* placeholder with the same (Z, A, m).
from_zaid_with_fallback(n) == n

-----------------------------------------------------------------------------
(* Particles (particle.py). *)

Particle(z, a, name, sign) == [Z |-> z, A |-> a, name |-> name, sign |-> sign]

Photon == Particle(0, 0, "photon", "$\\gamma$")
Neutron == Particle(0, 1, "neutron", "n")
Proton == Particle(1, 1, "proton", "p")
Deutron == Particle(1, 2, "Deutron", "d")
Alpha == Particle(2, 4, "alpha", "$\\alpha$")

-----------------------------------------------------------------------------
(* Type tags (typus.py). *)

TypusNFission == "(n,fission)"
TypusNGamma == "(n,\\gamma)"
TypusNP == "(n,p)"
TypusN2N == "(n,2n)"
TypusNAlpha == "(n,\\alpha)"
TypusND == "(n,d)"
ProdTypusNPtot == "(n,Xp)"

\* The characters of each tag, which the regular expression of induced_by reads.
TypusChars(t) ==
    CASE t = "(n,fission)" -> <<"(", "n", ",", "f", "i", "s", "s", "i", "o", "n", ")">>
      [] t = "(n,\\gamma)" -> <<"(", "n", ",", "\\", "g", "a", "m", "m", "a", ")">>
      [] t = "(n,p)" -> <<"(", "n", ",", "p", ")">>
      [] t = "(n,2n)" -> <<"(", "n", ",", "2", "n", ")">>
      [] t = "(n,\\alpha)" -> <<"(", "n", ",", "\\", "a", "l", "p", "h", "a", ")">>
      [] t = "(n,d)" -> <<"(", "n", ",", "d", ")">>
      [] t = "(n,Xp)" -> <<"(", "n", ",", "X", "p", ")">>
      [] t = "(p,n)" -> <<"(", "p", ",", "n", ")">>
      [] t = "(\\gamma,n)" -> <<"(", "\\", "g", "a", "m", "m", "a", ",", "n", ")">>
      [] t = "(d,n)" -> <<"(", "d", ",", "n", ")">>
      [] t = "(He-3,n)" -> <<"(", "H", "e", "-", "3", ",", "n", ")">>
      [] t = "(n fission)" -> <<"(", "n", " ", "f", "i", "s", "s", "i", "o", "n", ")">>
      [] t = "" -> <<>>

-----------------------------------------------------------------------------
(* Outcomes: a value or the name of the exception raised. *)

NoErr == "none"

-----------------------------------------------------------------------------
(* Reaction categories (reaction_category.py). *)

\* Counter([...]) as the set of its <<particle, count>> items.
ReactionCategory(typus, releases, target_state) ==
    [typus |-> typus, releases |-> releases, target_state |-> target_state]

ProductionReactionCategory(produces, typus) == [produces |-> produces, typus |-> typus]

Fission == ReactionCategory(TypusNFission, {<<Neutron, 1>>, <<Photon, 1>>}, 0)
NGamma == ReactionCategory(TypusNGamma, {<<Photon, 1>>}, 0)
NP == ReactionCategory(TypusNP, {<<Proton, 1>>}, 0)
N2N == ReactionCategory(TypusN2N, {<<Neutron, 2>>}, 0)
NAlpha == ReactionCategory(TypusNAlpha, {<<Alpha, 1>>}, 0)
ND == ReactionCategory(TypusND, {<<Deutron, 1>>}, 0)
NPtot == ProductionReactionCategory(Nuclide(1, 1, 0), ProdTypusNPtot)

\* str(category) of either category class.
CategoryStr(cat) == cat.typus

\* The characters \w matches, among those the tags are written with.
WordChars == {"a", "d", "e", "f", "g", "h", "i", "l", "m", "n", "o", "p", "s", "t",
              "H", "X", "2", "3", "_"}

\* The character class [\\\w] of _induce_pattern.
InduceClass == WordChars \cup {"\\"}

\* re.match(_induce_pattern, typus) with the pattern \(([\\\w]+),.*\): the
\* match is anchored at the start only; group 1 is the maximal run of class
\* characters after the opening parenthesis, which a comma must follow, and a
\* closing parenthesis must occur somewhere after that comma.
InduceMatch(tag) ==
    LET typus == TypusChars(tag)
        n == Len(typus)
        runEnds == {k \in 2..n : /\ \A i \in 2..k : typus[i] \in InduceClass
                                 /\ k + 1 <= n
                                 /\ typus[k + 1] = ","}
    IN  IF /\ n >= 1
           /\ typus[1] = "("
           /\ runEnds # {}
           /\ \E k \in runEnds : \E j \in (k + 2)..n : typus[j] = ")"
        THEN [matched |-> TRUE,
              group |-> LET k == CHOOSE k \in runEnds : TRUE
                        IN  SubSeq(typus, 2, k)]
        ELSE [matched |-> FALSE, group |-> <<>>]

\* _induce_dict
InduceDictKeys == {<<"n">>, <<"p">>, <<"\\", "g", "a", "m", "m", "a">>}

InduceDict(sym) ==
    IF sym = <<"n">> THEN Neutron
    ELSE IF sym = <<"p">> THEN Proton
    ELSE Photon

\* ReactionCategory.induced_by
induced_by(cat) ==
    LET m == InduceMatch(cat.typus)
    IN  IF ~m.matched THEN [err |-> "AttributeError", val |-> Photon]
        ELSE IF m.group \in InduceDictKeys
             THEN [err |-> NoErr, val |-> InduceDict(m.group)]
             ELSE [err |-> "NotImplementedError", val |-> Photon]

RECURSIVE SumReleases(_, _)
\* sum(n * particle.<field> for particle, n in releases.items())
SumReleases(items, field) ==
    IF items = {} THEN 0
    ELSE LET it == CHOOSE it \in items : TRUE
         IN  it[2] * (IF field = "Z" THEN it[1].Z ELSE it[1].A)
             + SumReleases(items \ {it}, field)

\* The balance that leaves the inducing particle out.
BalanceTargetForgetsInducedBy(cat, parent) ==
    LET ind == induced_by(cat)
    IN  IF ind.err # NoErr THEN [err |-> ind.err, val |-> sink]
        ELSE LET z == parent.Z - SumReleases(cat.releases, "Z")
                 a == parent.A - SumReleases(cat.releases, "A")
             IN  [err |-> NoErr,
                  val |-> from_zaid_with_fallback(Nuclide(z, a, cat.target_state))]

\* The body of calc_target after the fission check: the Z and A balance and
\* the catalog lookup.
BalanceTarget(cat, parent) ==
    LET ind == induced_by(cat)
    IN  IF ind.err # NoErr THEN [err |-> ind.err, val |-> sink]
        ELSE LET z == parent.Z + ind.val.Z - SumReleases(cat.releases, "Z")
                 a == parent.A + ind.val.A - SumReleases(cat.releases, "A")
             IN  [err |-> NoErr,
                  val |-> from_zaid_with_fallback(Nuclide(z, a, cat.target_state))]

\* calc_target without the fission check.
calc_targetNoFissionCheck(cat, parent) == BalanceTarget(cat, parent)

\* ReactionCategory.calc_target
calc_target(cat, parent) ==
    IF cat.typus = TypusNFission
    THEN [err |-> "FissionTargetError", val |-> sink]
    ELSE BalanceTarget(cat, parent)

-----------------------------------------------------------------------------
(* Optional dictionaries, optional targets, references. *)

NoneDict == [none |-> TRUE, items |-> {}]
Dict(items) == [none |-> FALSE, items |-> items]

\* Python truthiness of an optional dict: None and {} are falsy.
Truthy(b) == ~b.none /\ b.items # {}

\* `branching or {}`
OrEmpty(b) == IF Truthy(b) THEN b ELSE Dict({})

NoTarget == [none |-> TRUE, val |-> sink]
Target(n) == [none |-> FALSE, val |-> n]

NoRef == [key |-> <<>>, n |-> -1]

\* The name of the object the next allocation for key creates in heap objs.
FreshRef(objs, key) ==
    [key |-> key, n |-> Cardinality({r \in DOMAIN objs : r.key = key})]

\* heap objs with object obj stored at reference ref.
Store(objs, ref, obj) ==
    [r \in DOMAIN objs \cup {ref} |-> IF r = ref THEN obj ELSE objs[r]]

\* A dict of bounded size: storing a key drops the entries stored before.
PutEvicts(d, key, val) == [k \in {key} |-> val]

\* dict d with d[key] = val.
Put(d, key, val) ==
    [k \in DOMAIN d \cup {key} |-> IF k = key THEN val ELSE d[k]]

-----------------------------------------------------------------------------
(* ProtoReaction (reaction.py). *)

ProtoAttrs == {"parent", "typus", "energy", "energy_err", "spectra", "branching", "nu"}

\* The object object.__new__ returns: no instance attribute is set yet.
RawProto ==
    [set |-> {}, parent |-> sink, typus |-> "", energy |-> 0, energy_err |-> 0,
     spectra |-> <<>>, branching |-> NoneDict, nu |-> 0]

\* The arguments of a ProtoReaction(...) call; given tells whether the
\* keyword branching was passed at all (its default in __new__ is None).
ProtoArgs(parent, typus, energy, energy_err, nu, given, branching, spectra) ==
    [parent |-> parent, typus |-> typus, energy |-> energy, energy_err |-> energy_err,
     nu |-> nu, given |-> given, branching |-> IF given THEN branching ELSE NoneDict,
     spectra |-> spectra]

\* frozenset(branching.items() if branching else ())
FrozenItems(b) == IF Truthy(b) THEN b.items ELSE {}

\* The identity key ProtoReaction.__new__ builds from its arguments.
ProtoKey(a) ==
    <<a.parent, a.typus, a.energy, a.energy_err, a.nu, FrozenItems(a.branching), a.spectra>>

\* ProtoReaction.__new__ that allocates without consulting the cache.
ProtoNewAlwaysAllocates(members, objs, a) ==
    LET key == ProtoKey(a)
        ref == FreshRef(objs, key)
    IN  [members |-> Put(members, key, ref), objs |-> Store(objs, ref, RawProto),
         ref |-> ref, hit |-> FALSE]

\* ProtoReaction.__new__
ProtoNew(members, objs, a) ==
    LET key == ProtoKey(a)
        ref == FreshRef(objs, key)
    IN  IF key \in DOMAIN members
        THEN [members |-> members, objs |-> objs, ref |-> members[key], hit |-> TRUE]
        ELSE [members |-> Put(members, key, ref), objs |-> Store(objs, ref, RawProto),
              ref |-> ref, hit |-> FALSE]

\* ProtoReaction.__init__ without the check of spectra.
ProtoInitAcceptsSpectra(obj, a) ==
    IF ~a.given THEN [err |-> "TypeError", obj |-> obj]
    ELSE [err |-> NoErr,
          obj |-> [obj EXCEPT !.set = ProtoAttrs,
                              !.parent = a.parent, !.typus = a.typus,
                              !.energy = a.energy, !.energy_err = a.energy_err,
                              !.spectra = a.spectra, !.branching = a.branching,
                              !.nu = a.nu]]

\* ProtoReaction.__init__ on object obj: the outcome and the object afterwards.
ProtoInit(obj, a) ==
    IF ~a.given THEN [err |-> "TypeError", obj |-> obj]
    ELSE LET o1 == [obj EXCEPT !.set = @ \cup {"parent", "typus", "energy", "energy_err"},
                               !.parent = a.parent, !.typus = a.typus,
                               !.energy = a.energy, !.energy_err = a.energy_err]
         IN  IF a.spectra # <<>>
             THEN [err |-> "NotImplementedError", obj |-> o1]
             ELSE [err |-> NoErr,
                   obj |-> [o1 EXCEPT !.set = @ \cup {"spectra", "branching", "nu"},
                                      !.spectra = a.spectra,
                                      !.branching = a.branching,
                                      !.nu = a.nu]]

\* ProtoReaction(...) that returns what __new__ returned without running
\* __init__ on it.
ProtoCallSkipsInit(members, objs, a) ==
    LET Finish(n) == [members |-> n.members, objs |-> n.objs, ref |-> n.ref,
                      err |-> NoErr, hit |-> n.hit]
    IN  Finish(ProtoNew(members, objs, a))

\* ProtoReaction(...): __new__, then __init__ on the object __new__ returned.
ProtoCall(members, objs, a) ==
    LET Finish(n, i) == [members |-> n.members, objs |-> Store(n.objs, n.ref, i.obj),
                         ref |-> n.ref, err |-> i.err, hit |-> n.hit]
        Initialise(n) == Finish(n, ProtoInit(n.objs[n.ref], a))
    IN  Initialise(ProtoNew(members, objs, a))

\* ProtoReaction.from_reaction: the arguments it calls cls with.
ProtoFromReactionArgs(parent, cat, branching, spectra, nu, energy, energy_err) ==
    ProtoArgs(parent, CategoryStr(cat), energy, energy_err, nu, TRUE,
              OrEmpty(branching), spectra)

\* ProtoReaction.__hash__ : the hashed tuple (the hash is taken to be injective).
ProtoHash(obj) ==
    <<obj.parent, obj.typus, obj.energy, obj.energy_err, obj.nu,
      FrozenItems(obj.branching), obj.spectra>>

\* ProtoReaction.__getnewargs_ex__
ProtoNewArgsEx(obj) ==
    <<obj.parent, obj.typus, obj.energy, obj.energy_err, obj.nu, obj.branching, obj.spectra>>

\* ProtoReaction.__eq__ that leaves branching out of the comparison.
ProtoEqIgnoresBranching(o1, o2) ==
    <<o1.parent, o1.typus, o1.energy, o1.energy_err, o1.nu, o1.spectra>>
        = <<o2.parent, o2.typus, o2.energy, o2.energy_err, o2.nu, o2.spectra>>

\* ProtoReaction.__eq__ between two ProtoReaction objects.
ProtoEq(o1, o2) == ProtoNewArgsEx(o1) = ProtoNewArgsEx(o2)

-----------------------------------------------------------------------------
(* Reaction (reaction.py). *)

\* hash((proto, target)) of a Reaction key, with the proto hashed as it is now.
ReacKeyHash(pobjs, proto, target) == <<ProtoHash(pobjs[proto]), target>>

\* The entries of Reaction._members_ a lookup of (proto, target) matches: the
\* stored hash equals the hash of the key, and the keys are identical or equal.
ReacLookup(members, pobjs, proto, target) ==
    {e \in members :
        /\ e.hash = ReacKeyHash(pobjs, proto, target)
        /\ (e.proto = proto \/ ProtoEq(pobjs[e.proto], pobjs[proto]))
        /\ e.target = target}

\* Reaction(proto, target) with a cache that keeps only the entry stored last.
ReacCallEvicts(members, objs, pobjs, proto, target) ==
    LET found == ReacLookup(members, pobjs, proto, target)
        ref == FreshRef(objs, <<proto, target>>)
    IN  IF found # {}
        THEN LET e == CHOOSE e \in found : TRUE
             IN  [members |-> members,
                  objs |-> Store(objs, e.obj, [proto |-> proto, target |-> target]),
                  ref |-> e.obj, hit |-> TRUE]
        ELSE [members |-> {[hash |-> ReacKeyHash(pobjs, proto, target),
                            proto |-> proto, target |-> target, obj |-> ref]},
              objs |-> Store(objs, ref, [proto |-> proto, target |-> target]),
              ref |-> ref, hit |-> FALSE]

\* Reaction(proto, target): Reaction.__new__, then Reaction.__init__ (which
\* cannot fail) on the object __new__ returned.
ReacCall(members, objs, pobjs, proto, target) ==
    LET found == ReacLookup(members, pobjs, proto, target)
        ref == FreshRef(objs, <<proto, target>>)
    IN  IF found # {}
        THEN LET e == CHOOSE e \in found : TRUE
             IN  [members |-> members,
                  objs |-> Store(objs, e.obj, [proto |-> proto, target |-> target]),
                  ref |-> e.obj, hit |-> TRUE]
        ELSE [members |-> members \cup
                            {[hash |-> ReacKeyHash(pobjs, proto, target),
                              proto |-> proto, target |-> target, obj |-> ref]},
              objs |-> Store(objs, ref, [proto |-> proto, target |-> target]),
              ref |-> ref, hit |-> FALSE]

\* A Reaction that reports 0 for energy, as a ProductionReaction does.
ReacPropertyZeroEnergy(pobjs, r, name) ==
    IF name = "energy" THEN [err |-> NoErr, val |-> 0]
    ELSE IF name \in pobjs[r.proto].set
         THEN [err |-> NoErr, val |-> pobjs[r.proto][name]]
         ELSE [err |-> "AttributeError", val |-> 0]

\* The properties parent, typus, energy, energy_err, nu, spectra and branching
\* of Reaction r: each returns self._proto.<name>, which reads the attribute
\* _<name> of the proto as it is now and fails if it was never assigned.
ReacProperty(pobjs, r, name) ==
    IF name \in pobjs[r.proto].set
    THEN [err |-> NoErr, val |-> pobjs[r.proto][name]]
    ELSE [err |-> "AttributeError", val |-> 0]

\* Reaction.from_reaction that computes the target whatever the caller supplied.
FromReactionTargetAlwaysComputes(cat, parent, target) == calc_target(cat, parent)

\* Reaction.from_reaction: `target if target is not None else reaction.calc_target(parent)`
FromReactionTarget(cat, parent, target) ==
    IF ~target.none THEN [err |-> NoErr, val |-> target.val]
    ELSE calc_target(cat, parent)

\* Reaction.__eq__ between two Reaction objects: the tuples (proto, target)
\* compare equal, element by element, by identity or by ==.
ReacEq(pobjs, r1, r2) ==
    /\ (r1.proto = r2.proto \/ ProtoEq(pobjs[r1.proto], pobjs[r2.proto]))
    /\ r1.target = r2.target

-----------------------------------------------------------------------------
(* ProductionReaction (reaction.py). *)

ProdKey(parent, target, typus) == <<parent, target, typus>>

\* ProductionReaction(parent, target, typus): __new__, then __init__.
ProdCall(members, objs, parent, target, typus) ==
    LET key == ProdKey(parent, target, typus)
        ref == IF key \in DOMAIN members THEN members[key] ELSE FreshRef(objs, key)
    IN  [members |-> IF key \in DOMAIN members THEN members ELSE Put(members, key, ref),
         objs |-> Store(objs, ref, [parent |-> parent, target |-> target, typus |-> typus]),
         ref |-> ref, hit |-> key \in DOMAIN members]

\* The properties nu, energy, energy_err and branching of a ProductionReaction:
\* constants, whatever the object holds.
ProdProperties(obj) ==
    [nu |-> 0, energy |-> 0, energy_err |-> 0, branching |-> Dict({})]

\* ProductionReaction.__eq__
ProdEq(o1, o2) ==
    o1.parent = o2.parent /\ o1.target = o2.target /\ o1.typus = o2.typus

-----------------------------------------------------------------------------
(* Floats: fixed-point numbers counted in tenths. *)

One == 10

\* x * y of two floats
FloatMul(x, y) == (x * y) \div 10

\* numpy.isclose(a, b, rtol=1e-10, atol=1e-14): two values counted in tenths
\* that differ, differ by far more than the tolerance.
IsClose(a, b) == a = b

-----------------------------------------------------------------------------
(* Serialization (serialize / deserialize of each class, and the JSON trip   *)
(* between them).                                                          *)

\* The kinds of the registry `jsonable` and the tag each class declares; a
\* class without a ser_identifier attribute has none.
Jsonable == {"ReactionCategory", "Reaction", "ProtoReaction", "ProductionReaction",
             "ReactionRate", "Particle"}

NoTag == "<no ser_identifier>"

SerIdentifier(kind) ==
    CASE kind = "ProtoReaction" -> "ProtoReaction"
      [] kind = "Reaction" -> "ConcreteReaction"
      [] kind = "ProductionReaction" -> "ProductionReaction"
      [] kind = "ReactionRate" -> "ReactionRate"
      [] kind = "Particle" -> "Particle"
      [] kind = "ReactionCategory" -> NoTag

\* Whether the class defines serialize and deserialize.
HasSerialize(kind) == kind # "ReactionCategory"

\* RampJSONDecoder.supported = {c.ser_identifier: c for c in jsonable}, over
\* the classes that have a tag.
Supported == {SerIdentifier(k) : k \in {k \in Jsonable : SerIdentifier(k) # NoTag}}

\* The JSON encoding of an optional dict keyed by nuclides.
JsonBranching(b) == [none |-> b.none, items |-> {<<ZaidToInt(it[1]), it[2]>> : it \in b.items}]

\* ProtoReaction.serialize, then the JSON encoding of the envelope.
ProtoSerialize(obj) ==
    [tag |-> SerIdentifier("ProtoReaction"),
     parent |-> ZaidToInt(obj.parent), typus |-> obj.typus, energy |-> obj.energy,
     energy_err |-> obj.energy_err, spectra |-> obj.spectra,
     branching |-> JsonBranching(obj.branching), nu |-> obj.nu]

\* ProtoReaction.deserialize that decodes every branching as None.
ProtoDeserializeArgsDropsBranching(d) ==
    ProtoArgs(from_int_with_fallback(d.parent), d.typus, d.energy, d.energy_err, d.nu,
              TRUE, NoneDict, d.spectra)

\* ProtoReaction.deserialize: the arguments it calls cls with.
ProtoDeserializeArgs(d) ==
    LET parent == from_int_with_fallback(d.parent)
        branching == IF Truthy(d.branching)
                     THEN Dict({<<from_int_with_fallback(it[1]), it[2]>> :
                                   it \in d.branching.items})
                     ELSE NoneDict
    IN  ProtoArgs(parent, d.typus, d.energy, d.energy_err, d.nu, TRUE, branching,
                  d.spectra)

\* Reaction.serialize, then the JSON encoding of the envelope.
ReacSerialize(obj, pobjs) ==
    [tag |-> SerIdentifier("Reaction"), proto |-> ProtoSerialize(pobjs[obj.proto]),
     target |-> ZaidToInt(obj.target)]

\* ProductionReaction.serialize, then the JSON encoding of the envelope.
ProdSerialize(obj) ==
    [tag |-> SerIdentifier("ProductionReaction"), parent |-> ZaidToInt(obj.parent),
     target |-> ZaidToInt(obj.target), typus |-> obj.typus]

\* Particle.serialize
ParticleSerialize(x) ==
    [tag |-> SerIdentifier("Particle"), charge |-> x.Z, mass |-> x.A, name |-> x.name,
     sign |-> x.sign]

\* Particle.deserialize
ParticleDeserialize(d) == Particle(d.charge, d.mass, d.name, d.sign)

\* Particle.__eq__
ParticleEq(x, y) == x.Z = y.Z /\ x.A = y.A /\ x.name = y.name /\ x.sign = y.sign

\* An equality of categories that compares every field.
CategoryEqAllFields(x, y) == x = y

\* ReactionCategory.__eq__
CategoryEq(x, y) == x.typus = y.typus /\ x.target_state = y.target_state

\* ReactionCategory.__hash__ : the hashed tuple (the hash is taken to be injective).
CategoryHash(x) == <<x.typus, x.target_state>>

-----------------------------------------------------------------------------
(* Operations on the heaps. A heap state h is a record of the two fields   *)
(* members and objs of each kind.                                          *)

Heap == [pm |-> protoMembers, po |-> protoObjs, rm |-> reacMembers, ro |-> reacObjs,
         dm |-> prodMembers, do |-> prodObjs]

\* ProtoReaction.deserialize(d) in heap h.
ProtoDeserialize(h, d) ==
    LET Result(c) == [h |-> [h EXCEPT !.pm = c.members, !.po = c.objs],
                      err |-> c.err, ref |-> c.ref, hit |-> c.hit]
    IN  Result(ProtoCall(h.pm, h.po, ProtoDeserializeArgs(d)))

\* Reaction.deserialize(d, supported=supported) in heap h: the nested proto is
\* decoded with deserialize_default, which resolves its tag in supported.
ReacDeserialize(h, d, supported) ==
    IF d.proto.tag \notin supported
    THEN [h |-> h, err |-> "UnsupportedType", ref |-> NoRef, hit |-> FALSE]
    ELSE LET Result(p, c) == [h |-> [p.h EXCEPT !.rm = c.members, !.ro = c.objs],
                              err |-> NoErr, ref |-> c.ref, hit |-> c.hit]
             Construct(p, target) ==
                 IF p.err # NoErr
                 THEN [h |-> p.h, err |-> p.err, ref |-> NoRef, hit |-> FALSE]
                 ELSE Result(p, ReacCall(p.h.rm, p.h.ro, p.h.po, p.ref, target))
         IN  Construct(ProtoDeserialize(h, d.proto), from_int_with_fallback(d.target))

\* ProductionReaction.deserialize(d) in heap h.
ProdDeserialize(h, d) ==
    LET Result(c) == [h |-> [h EXCEPT !.dm = c.members, !.do = c.objs],
                      err |-> NoErr, ref |-> c.ref, hit |-> c.hit]
    IN  Result(ProdCall(h.dm, h.do, from_int_with_fallback(d.parent),
                        from_int_with_fallback(d.target), d.typus))

-----------------------------------------------------------------------------
(* branches() of the three kinds (reaction.py). *)

RECURSIVE ProtoBranchesFrom(_, _, _, _)
\* The loop of ProtoReaction.branches over the items still to visit: every
\* item requests Reaction(self, target) and yields it with the item's weight.
ProtoBranchesFrom(h, ref, items, acc) ==
    IF items = {} THEN [h |-> h, out |-> acc]
    ELSE LET Yield(it, c) ==
                 ProtoBranchesFrom([h EXCEPT !.rm = c.members, !.ro = c.objs], ref,
                                   items \ {it},
                                   acc \cup {[rkind |-> "reac", reaction |-> c.ref,
                                              weight |-> it[2]]})
             Visit(it) == Yield(it, ReacCall(h.rm, h.ro, h.po, ref, it[1]))
         IN  Visit(CHOOSE it \in items : TRUE)

\* branches() where a Reaction delegates to the branches of its proto.
BranchesOfProto(h, rkind, ref) ==
    IF rkind = "prod"
    THEN [h |-> h, err |-> NoErr,
          out |-> {[rkind |-> rkind, reaction |-> ref, weight |-> One]}]
    ELSE LET Result(f) == [h |-> f.h, err |-> NoErr, out |-> f.out]
             Of(p) == IF h.po[p].branching.none
                      THEN [h |-> h, err |-> "AttributeError", out |-> {}]
                      ELSE Result(ProtoBranchesFrom(h, p, h.po[p].branching.items, {}))
         IN  Of(IF rkind = "proto" THEN ref ELSE h.ro[ref].proto)

\* list(x.branches()) for the entity ref of kind rkind in heap h; None has no
\* method items.
Branches(h, rkind, ref) ==
    IF rkind = "proto"
    THEN IF h.po[ref].branching.none
         THEN [h |-> h, err |-> "AttributeError", out |-> {}]
         ELSE LET Result(f) == [h |-> f.h, err |-> NoErr, out |-> f.out]
              IN  Result(ProtoBranchesFrom(h, ref, h.po[ref].branching.items, {}))
    ELSE [h |-> h, err |-> NoErr,
          out |-> {[rkind |-> rkind, reaction |-> ref, weight |-> One]}]

-----------------------------------------------------------------------------
(* ReactionRate (reaction_rate.py). *)

ReactionRate(component, rkind, reaction, mean, std) ==
    [component |-> component, rkind |-> rkind, reaction |-> reaction,
     mean |-> mean, std |-> std]

\* ReactionRate.expand that scales the mean only.
ExpandKeepsStd(h, rate) ==
    LET Rates(b) ==
            [h |-> b.h, err |-> b.err,
             out |-> {ReactionRate(rate.component, e.rkind, e.reaction,
                                   FloatMul(rate.mean, e.weight), rate.std) : e \in b.out}]
    IN  Rates(Branches(h, rate.rkind, rate.reaction))

\* list(rate.expand()) in heap h
Expand(h, rate) ==
    LET Rates(b) ==
            [h |-> b.h, err |-> b.err,
             out |-> {ReactionRate(rate.component, e.rkind, e.reaction,
                                   FloatMul(rate.mean, e.weight),
                                   FloatMul(rate.std, e.weight)) : e \in b.out}]
    IN  Rates(Branches(h, rate.rkind, rate.reaction))

\* x == y for two reaction entities of the given kinds in heap h.
ReactionEq(h, k1, r1, k2, r2) ==
    /\ k1 = k2
    /\ CASE k1 = "proto" -> ProtoEq(h.po[r1], h.po[r2])
         [] k1 = "reac" -> ReacEq(h.po, h.ro[r1], h.ro[r2])
         [] k1 = "prod" -> ProdEq(h.do[r1], h.do[r2])

\* ReactionRate.__eq__
RateEq(h, x, y) ==
    /\ x.component = y.component
    /\ ReactionEq(h, x.rkind, x.reaction, y.rkind, y.reaction)
    /\ IsClose(x.mean, y.mean)
    /\ IsClose(x.std, y.std)

\* x.serialize() of a reaction entity, then the JSON encoding.
ReactionSerialize(h, rkind, ref) ==
    CASE rkind = "proto" -> ProtoSerialize(h.po[ref])
      [] rkind = "reac" -> ReacSerialize(h.ro[ref], h.po)
      [] rkind = "prod" -> ProdSerialize(h.do[ref])

\* ReactionRate.serialize, then the JSON encoding of the envelope.
RateSerialize(h, rate) ==
    [tag |-> SerIdentifier("ReactionRate"), component |-> rate.component,
     reaction |-> ReactionSerialize(h, rate.rkind, rate.reaction),
     mean |-> rate.mean, std |-> rate.std]

\* deserialize_default(envelope, supported=supported): the class registered
\* under the envelope's tag decodes its fields.
DeserializeDefault(h, d, supported) ==
    IF d.tag \notin supported
    THEN [h |-> h, err |-> "UnsupportedType", ref |-> NoRef, hit |-> FALSE, rkind |-> "none"]
    ELSE CASE d.tag = "ProtoReaction" ->
                  [rkind |-> "proto"] @@ ProtoDeserialize(h, d)
           [] d.tag = "ConcreteReaction" ->
                  [rkind |-> "reac"] @@ ReacDeserialize(h, d, supported)
           [] d.tag = "ProductionReaction" ->
                  [rkind |-> "prod"] @@ ProdDeserialize(h, d)

\* The keys of the mapping d after cls.deserialize(d) of class kind has
\* returned or raised err: ReactionRate.deserialize runs `del d["reaction"]`
\* once the nested reaction is decoded; the other classes build new mappings.
KeysAfterDeserialize(kind, d, err) ==
    IF kind = "ReactionRate" /\ err = NoErr THEN DOMAIN d \ {"reaction"} ELSE DOMAIN d

\* ReactionRate.deserialize(d, supported=supported) in heap h.
RateDeserialize(h, d, supported) ==
    LET Result(r) == [h |-> r.h, err |-> r.err,
                      rate |-> ReactionRate(d.component, r.rkind, r.ref, d.mean, d.std)]
    IN  Result(DeserializeDefault(h, d.reaction, supported))

-----------------------------------------------------------------------------
(* Operations on ReactionRate objects (reaction_rate.py). The objects live   *)
(* in rateObjs; a rate is named by its position there.                     *)

\* A Python value offered as a multiplier: its type and, for a number, its
\* value in tenths.
Value(type, v) == [type |-> type, val |-> v]

\* from_other that overwrites the statistics of the template and returns it.
FromOtherInPlace(rates, other, mean, std) ==
    [rates |-> [rates EXCEPT ![other].mean = mean, ![other].std = std], new |-> other]

\* ReactionRate.from_other(other, mean, std): cls(other.component,
\* other.reaction, mean, std) allocates a new rate.
FromOther(rates, other, mean, std) ==
    [rates |-> Append(rates, ReactionRate(rates[other].component, rates[other].rkind,
                                          rates[other].reaction, mean, std)),
     new |-> Len(rates) + 1]

\* The reflected operand other.__rmul__(rate) that Python tries after __mul__
\* returned NotImplemented: int, bool, str and NoneType have none that accepts
\* a ReactionRate, so the operator raises TypeError.
ReflectedMul(rates, self, other) == [rates |-> rates, new |-> 0, err |-> "TypeError"]

\* self * other that hands back the rate itself when the multiplier is not a
\* float.
MulReturnsSelf(rates, self, other) ==
    IF other.type # "float"
    THEN [rates |-> rates, new |-> self, err |-> NoErr]
    ELSE LET Result(f) == [rates |-> f.rates, new |-> f.new, err |-> NoErr]
         IN  Result(FromOther(rates, self, FloatMul(rates[self].mean, other.val),
                              FloatMul(rates[self].std, other.val)))

\* self * other, for the rate self
Mul(rates, self, other) ==
    IF other.type # "float"
    THEN ReflectedMul(rates, self, other)
    ELSE LET Result(f) == [rates |-> f.rates, new |-> f.new, err |-> NoErr]
         IN  Result(FromOther(rates, self, FloatMul(rates[self].mean, other.val),
                              FloatMul(rates[self].std, other.val)))

NoRateRet ==
    [op |-> "none", err |-> NoErr, src |-> 0, new |-> 0,
     before |-> ReactionRate("", "none", NoRef, 0, 0), m |-> Value("NoneType", 0), mean |-> 0, std |-> 0]

\* No rate object exists (the specifications that are not about rates).
NoRates == rateObjs = <<>> /\ rateRet = NoRateRet

-----------------------------------------------------------------------------
(* The values the requests of the model are drawn from. *)

\* A run is about one parent, one category and one energy release.
Worlds ==
    {[parent |-> H1, cat |-> NGamma, energy |-> 0],
     [parent |-> U235, cat |-> Fission, energy |-> 200]}

Targets == {H2, sink}
TargetArgs == {NoTarget} \cup {Target(n) : n \in Targets}
EnergyErrs == {0}
Nus == {0}
BranchingArgs == {NoneDict, Dict({}), Dict({<<H2, 3>>, <<sink, 7>>})}
\* branching omitted, or passed as one of BranchingArgs
BranchingChoices == {<<FALSE, NoneDict>>} \cup {<<TRUE, b>> : b \in BranchingArgs}
SpectraArgs == {<<>>, <<"spectrum">>}
ProductionCategoryArgs == {NPtot}
ParticleArgs == {Photon, Neutron, Proton, Alpha, Particle(3, 4, "", "")}
RoundTripCategoryArgs == {NGamma, Fission, ReactionCategory("", {<<Proton, 2>>}, 0)}
Components == {"fuel"}
Means == {10 * One}
Stds == {One}
ProductionTypusArgs == {ProdTypusNPtot, TypusNP}

\* Category cat and a category with its tag and state that releases other
\* particles.
SameTagCategories(cat) ==
    {cat, ReactionCategory(cat.typus, {<<Proton, 2>>}, cat.target_state)}

-----------------------------------------------------------------------------
(* The outcome of an operation, with the request that produced it. *)

NoReq ==
    [given |-> FALSE, branching |-> NoneDict, spectra |-> <<>>, target |-> NoTarget,
     releases |-> {}]

ProtoReq(a) == [NoReq EXCEPT !.given = a.given, !.branching = a.branching,
                             !.spectra = a.spectra]

\* op: the operation; kind: the kind of entity it returns; err: the exception
\* it raised, if any; ref: the entity returned; hit: whether __new__ found the
\* key in the cache; again: whether an earlier request with this key had
\* succeeded; src: the entity the operation was applied to; out: the elements
\* it yielded; eq: for a round trip, whether the result == the original; kept:
\* for a deserialization, whether the mapping it was given has its keys still.
Outcome(op, kind, err, ref, hit, req) ==
    [op |-> op, kind |-> kind, err |-> err, ref |-> IF err = NoErr THEN ref ELSE NoRef,
     hit |-> hit, again |-> FALSE, req |-> req, src |-> NoRef, out |-> {}, eq |-> FALSE,
     kept |-> TRUE]

\* Whether an earlier request of the kind with identity key `key` succeeded.
HandedKey(hs, key) == \E h \in hs : h[1] = key

HandedProtos == {h[2] : h \in handed.proto}
HandedReacs == {h[2] : h \in handed.reac}
HandedProds == {h[2] : h \in handed.prod}

-----------------------------------------------------------------------------
(* Initial state: freshly imported modules, empty intern caches. *)

NoCalc == [err |-> "not run", val |-> sink]

HeapInit ==
    /\ protoMembers = <<>>
    /\ protoObjs = <<>>
    /\ reacMembers = {}
    /\ reacObjs = <<>>
    /\ prodMembers = <<>>
    /\ prodObjs = <<>>
    /\ handed = [proto |-> {}, reac |-> {}, prod |-> {}]
    /\ ret = Outcome("import", "none", NoErr, NoRef, FALSE, NoReq)

Init ==
    /\ HeapInit
    /\ world \in Worlds
    /\ calcIn = [cat |-> NGamma, parent |-> H1]
    /\ calcOut = NoCalc
    /\ thr = <<>>
    /\ thrMembers = <<>>
    /\ thrNext = 1
    /\ NoRates

-----------------------------------------------------------------------------
(* Construction of the flyweight entities. *)

\* The heaps pobjs, robjs, dobjs together stay within the bound of the model.
Fits(pobjs, robjs, dobjs) ==
    Cardinality(DOMAIN pobjs) + Cardinality(DOMAIN robjs) + Cardinality(DOMAIN dobjs)
        <= MaxObjs

\* A call cls(...) of ProtoReaction with arguments a, reported as operation op;
\* releases: the released particles of the category the request named, if any.
ConstructProto(op, a, releases) ==
    \E c \in {ProtoCall(protoMembers, protoObjs, a)} :
        /\ Fits(c.objs, reacObjs, prodObjs)
        /\ protoMembers' = c.members
        /\ protoObjs' = c.objs
        /\ handed' = IF c.err = NoErr
                     THEN [handed EXCEPT !.proto = @ \cup {<<ProtoKey(a), c.ref>>}]
                     ELSE handed
        /\ ret' = [Outcome(op, "proto", c.err, c.ref, c.hit,
                           [ProtoReq(a) EXCEPT !.releases = releases])
                      EXCEPT !.again = HandedKey(handed.proto, ProtoKey(a))]
        /\ UNCHANGED <<reacMembers, reacObjs, prodMembers, prodObjs>>

\* ProtoReaction(parent, typus, energy=, energy_err=, nu=, branching=, spectra=)
NewProtoReaction ==
    \E energy_err \in EnergyErrs, nu \in Nus, b \in BranchingChoices,
       spectra \in SpectraArgs :
        ConstructProto("ProtoReaction",
                       ProtoArgs(world.parent, world.cat.typus, world.energy,
                                 energy_err, nu, b[1], b[2], spectra), {})

\* ProtoReaction.from_reaction(parent, category, branching=, spectra=, nu=, energy=, energy_err=)
ProtoFromReaction ==
    \E energy_err \in EnergyErrs, nu \in Nus, branching \in BranchingArgs,
       spectra \in SpectraArgs, cat \in SameTagCategories(world.cat) :
        ConstructProto("ProtoReaction.from_reaction",
                       ProtoFromReactionArgs(world.parent, cat, branching,
                                             spectra, nu, world.energy, energy_err),
                       cat.releases)

\* Reaction(proto, target), the proto being an entity the caller holds.
NewReaction ==
    \E proto \in HandedProtos, target \in Targets :
        \E c \in {ReacCall(reacMembers, reacObjs, protoObjs, proto, target)} :
            /\ Fits(protoObjs, c.objs, prodObjs)
            /\ reacMembers' = c.members
            /\ reacObjs' = c.objs
            /\ handed' = [handed EXCEPT !.reac = @ \cup {<<<<proto, target>>, c.ref>>}]
            /\ ret' = [Outcome("Reaction", "reac", NoErr, c.ref, c.hit,
                               [NoReq EXCEPT !.target = Target(target)])
                          EXCEPT !.src = proto,
                                 !.again = HandedKey(handed.reac, <<proto, target>>)]
            /\ UNCHANGED <<protoMembers, protoObjs, prodMembers, prodObjs>>

\* Reaction.from_reaction(parent, category, target, spectra=, branching=, nu=, energy=, energy_err=)
ReactionFromReaction ==
    \E target \in TargetArgs, energy_err \in EnergyErrs, nu \in Nus,
       branching \in BranchingArgs, spectra \in SpectraArgs :
        \E a \in {ProtoFromReactionArgs(world.parent, world.cat, OrEmpty(branching),
                                         spectra, nu, world.energy, energy_err)} :
        \E p \in {ProtoCall(protoMembers, protoObjs, a)},
           t \in {FromReactionTarget(world.cat, world.parent, target)} :
        \E err \in {IF p.err # NoErr THEN p.err ELSE t.err},
           req \in {[ProtoReq(a) EXCEPT !.target = target]} :
            /\ Fits(p.objs, reacObjs, prodObjs)
            /\ protoMembers' = p.members
            /\ protoObjs' = p.objs
            /\ IF err = NoErr
               THEN \E c \in {ReacCall(reacMembers, reacObjs, p.objs, p.ref, t.val)} :
                    /\ Fits(p.objs, c.objs, prodObjs)
                    /\ reacMembers' = c.members
                    /\ reacObjs' = c.objs
                    /\ handed' = [handed EXCEPT
                                     !.proto = @ \cup {<<ProtoKey(a), p.ref>>},
                                     !.reac = @ \cup {<<<<p.ref, t.val>>, c.ref>>}]
                    /\ ret' = [Outcome("Reaction.from_reaction", "reac", NoErr, c.ref,
                                       c.hit, req)
                                  EXCEPT !.src = p.ref,
                                         !.again = HandedKey(handed.reac, <<p.ref, t.val>>)]
               ELSE /\ UNCHANGED <<reacMembers, reacObjs>>
                    /\ handed' = IF p.err = NoErr
                                 THEN [handed EXCEPT
                                          !.proto = @ \cup {<<ProtoKey(a), p.ref>>}]
                                 ELSE handed
                    /\ ret' = Outcome("Reaction.from_reaction", "reac", err, NoRef,
                                      FALSE, req)
            /\ UNCHANGED <<prodMembers, prodObjs>>

\* A call cls(parent, target, typus) of ProductionReaction, reported as op.
ConstructProd(op, parent, target, typus) ==
    \E c \in {ProdCall(prodMembers, prodObjs, parent, target, typus)} :
        /\ Fits(protoObjs, reacObjs, c.objs)
        /\ prodMembers' = c.members
        /\ prodObjs' = c.objs
        /\ handed' = [handed EXCEPT
                         !.prod = @ \cup {<<ProdKey(parent, target, typus), c.ref>>}]
        /\ ret' = [Outcome(op, "prod", NoErr, c.ref, c.hit,
                           [NoReq EXCEPT !.target = Target(target)])
                      EXCEPT !.again = HandedKey(handed.prod, ProdKey(parent, target, typus))]
        /\ UNCHANGED <<protoMembers, protoObjs, reacMembers, reacObjs>>

\* ProductionReaction(parent, target, typus)
NewProductionReaction ==
    \E typus \in ProductionTypusArgs :
        ConstructProd("ProductionReaction", world.parent, H1, typus)

\* from_reaction that takes the parent for the product.
ProductionFromReactionOfParent ==
    \E cat \in ProductionCategoryArgs :
        ConstructProd("ProductionReaction.from_reaction", world.parent,
                      world.parent, cat.typus)

\* ProductionReaction.from_reaction(parent, category)
ProductionFromReaction ==
    \E cat \in ProductionCategoryArgs :
        ConstructProd("ProductionReaction.from_reaction", world.parent,
                      cat.produces, cat.typus)

-----------------------------------------------------------------------------
(* Serialization round trips: x is serialized, the envelope goes through   *)
(* JSON and is deserialized with the registry built from jsonable.         *)

\* The heap variables take the values of heap state h.
SetHeap(h) ==
    /\ protoMembers' = h.pm
    /\ protoObjs' = h.po
    /\ reacMembers' = h.rm
    /\ reacObjs' = h.ro
    /\ prodMembers' = h.dm
    /\ prodObjs' = h.do

FitsHeap(h) == Fits(h.po, h.ro, h.do)

\* ProtoReaction.deserialize(serialize(x)) for an entity x the caller holds.
DeserializeProto ==
    \E x \in HandedProtos :
        \E d \in {ProtoSerialize(protoObjs[x])} : \E r \in {ProtoDeserialize(Heap, d)} :
            /\ FitsHeap(r.h)
            /\ SetHeap(r.h)
            /\ handed' = IF r.err = NoErr
                         THEN [handed EXCEPT !.proto = @ \cup
                                  {<<ProtoKey(ProtoDeserializeArgs(d)), r.ref>>}]
                         ELSE handed
            /\ ret' = [Outcome("ProtoReaction.deserialize", "proto", r.err, r.ref, r.hit,
                               NoReq)
                          EXCEPT !.src = x,
                                 !.kept = KeysAfterDeserialize("ProtoReaction", d, r.err)
                                             = DOMAIN d,
                                 !.eq = r.err = NoErr /\ ProtoEq(r.h.po[r.ref], r.h.po[x])]

\* Reaction.deserialize(serialize(x)) for an entity x the caller holds.
DeserializeReaction ==
    \E x \in HandedReacs :
        \E d \in {ReacSerialize(reacObjs[x], protoObjs)} :
        \E r \in {ReacDeserialize(Heap, d, Supported)} :
            /\ FitsHeap(r.h)
            /\ SetHeap(r.h)
            /\ handed' = IF r.err = NoErr
                         THEN [handed EXCEPT !.reac = @ \cup
                                  {<<<<r.h.ro[r.ref].proto, r.h.ro[r.ref].target>>, r.ref>>}]
                         ELSE handed
            /\ ret' = [Outcome("Reaction.deserialize", "reac", r.err, r.ref, r.hit, NoReq)
                          EXCEPT !.src = x,
                                 !.kept = KeysAfterDeserialize("Reaction", d, r.err)
                                             = DOMAIN d,
                                 !.eq = r.err = NoErr
                                        /\ ReacEq(r.h.po, r.h.ro[r.ref], r.h.ro[x])]

\* ProductionReaction.deserialize(serialize(x)) for an entity x the caller holds.
DeserializeProduction ==
    \E x \in HandedProds :
        \E d \in {ProdSerialize(prodObjs[x])} : \E r \in {ProdDeserialize(Heap, d)} :
            /\ FitsHeap(r.h)
            /\ SetHeap(r.h)
            /\ handed' = [handed EXCEPT !.prod = @ \cup
                             {<<ProdKey(from_int_with_fallback(d.parent),
                                        from_int_with_fallback(d.target), d.typus),
                                r.ref>>}]
            /\ ret' = [Outcome("ProductionReaction.deserialize", "prod", r.err, r.ref,
                               r.hit, NoReq)
                          EXCEPT !.src = x,
                                 !.kept = KeysAfterDeserialize("ProductionReaction", d,
                                                               r.err) = DOMAIN d,
                                 !.eq = ProdEq(r.h.do[r.ref], r.h.do[x])]

\* The rates a caller can build: ReactionRate(component, reaction, mean, std)
\* around an entity it holds.
RateArgs ==
    {ReactionRate(c, k[1], k[2], m, sd) :
        c \in Components,
        k \in ({"proto"} \X HandedProtos) \cup ({"reac"} \X HandedReacs)
                 \cup ({"prod"} \X HandedProds),
        m \in Means, sd \in Stds}

\* ReactionRate.deserialize(serialize(x)) for a rate x.
DeserializeRate ==
    \E x \in RateArgs :
        \E d \in {RateSerialize(Heap, x)} : \E r \in {RateDeserialize(Heap, d, Supported)} :
            /\ FitsHeap(r.h)
            /\ SetHeap(r.h)
            /\ UNCHANGED handed
            /\ ret' = [Outcome("ReactionRate.deserialize", x.rkind, r.err, x.reaction,
                               FALSE, NoReq)
                          EXCEPT !.src = x.reaction, !.out = {r.rate},
                                 !.kept = KeysAfterDeserialize("ReactionRate", d, r.err)
                                             = DOMAIN d,
                                 !.eq = r.err = NoErr /\ RateEq(r.h, r.rate, x)]

\* Particle.deserialize(serialize(x)) for a particle x.
RoundTripParticle ==
    \E x \in ParticleArgs :
        /\ ret' = [Outcome("Particle.deserialize", "particle", NoErr, NoRef, FALSE, NoReq)
                      EXCEPT !.kept = KeysAfterDeserialize("Particle", ParticleSerialize(x),
                                                           NoErr)
                                         = DOMAIN ParticleSerialize(x),
                             !.eq = ParticleEq(ParticleDeserialize(ParticleSerialize(x)), x)]
        /\ UNCHANGED <<protoMembers, protoObjs, reacMembers, reacObjs, prodMembers,
                       prodObjs, handed>>

\* x.serialize() for a ReactionCategory x: the class defines no serialize (nor
\* deserialize, nor ser_identifier), so the attribute lookup fails.
RoundTripCategory ==
    \E x \in RoundTripCategoryArgs :
        /\ ret' = [Outcome("ReactionCategory.serialize", "category",
                           IF HasSerialize("ReactionCategory") THEN NoErr
                           ELSE "AttributeError",
                           NoRef, FALSE, NoReq)
                      EXCEPT !.eq = HasSerialize("ReactionCategory") /\ CategoryEq(x, x)]
        /\ UNCHANGED <<protoMembers, protoObjs, reacMembers, reacObjs, prodMembers,
                       prodObjs, handed>>

-----------------------------------------------------------------------------
(* Branch iteration and expansion. *)

\* list(x.branches()) for an entity x the caller holds.
IterateBranches ==
    \E k \in ({"proto"} \X HandedProtos) \cup ({"reac"} \X HandedReacs)
                \cup ({"prod"} \X HandedProds) :
        \E b \in {Branches(Heap, k[1], k[2])} :
            /\ FitsHeap(b.h)
            /\ SetHeap(b.h)
            /\ handed' = [handed EXCEPT !.reac = @ \cup
                             {<<<<b.h.ro[e.reaction].proto, b.h.ro[e.reaction].target>>,
                                e.reaction>> : e \in {e \in b.out : e.rkind = "reac"}}]
            /\ ret' = [Outcome("branches", k[1], b.err, k[2], FALSE, NoReq)
                          EXCEPT !.src = k[2], !.out = b.out]

\* list(rate.expand()) for a rate around an entity the caller holds.
ExpandRate ==
    \E x \in RateArgs :
        \E b \in {Expand(Heap, x)} :
            /\ FitsHeap(b.h)
            /\ SetHeap(b.h)
            /\ handed' = [handed EXCEPT !.reac = @ \cup
                             {<<<<b.h.ro[e.reaction].proto, b.h.ro[e.reaction].target>>,
                                e.reaction>> : e \in {e \in b.out : e.rkind = "reac"}}]
            /\ ret' = [Outcome("expand", x.rkind, b.err, x.reaction, FALSE, NoReq)
                          EXCEPT !.src = x.reaction, !.out = b.out]

-----------------------------------------------------------------------------

\* [c.ser_identifier for c in jsonable], as the test of the registry and the
\* construction of RampJSONDecoder.supported evaluate it: reading the attribute
\* of a class that does not declare it raises AttributeError.
ReadSerIdentifiers ==
    /\ ret' = [Outcome("jsonable.ser_identifier", "registry",
                       IF \E k \in Jsonable : SerIdentifier(k) = NoTag
                       THEN "AttributeError" ELSE NoErr,
                       NoRef, FALSE, NoReq)
                  EXCEPT !.out = IF \E k \in Jsonable : SerIdentifier(k) = NoTag
                                 THEN {}
                                 ELSE {[kind |-> k, tag |-> SerIdentifier(k)] :
                                          k \in Jsonable}]
    /\ UNCHANGED <<protoMembers, protoObjs, reacMembers, reacObjs, prodMembers,
                   prodObjs, handed>>

\* What the operations on the heaps leave alone.
NotHeap == <<world, calcIn, calcOut, thr, thrMembers, thrNext, rateObjs, rateRet>>

Next ==
    \/ NewProtoReaction /\ UNCHANGED NotHeap
    \/ ProtoFromReaction /\ UNCHANGED NotHeap
    \/ NewReaction /\ UNCHANGED NotHeap
    \/ ReactionFromReaction /\ UNCHANGED NotHeap
    \/ NewProductionReaction /\ UNCHANGED NotHeap
    \/ ProductionFromReaction /\ UNCHANGED NotHeap
    \/ DeserializeProto /\ UNCHANGED NotHeap
    \/ DeserializeReaction /\ UNCHANGED NotHeap
    \/ DeserializeProduction /\ UNCHANGED NotHeap
    \/ DeserializeRate /\ UNCHANGED NotHeap
    \/ RoundTripParticle /\ UNCHANGED NotHeap
    \/ RoundTripCategory /\ UNCHANGED NotHeap
    \/ IterateBranches /\ UNCHANGED NotHeap
    \/ ExpandRate /\ UNCHANGED NotHeap
    \/ ReadSerIdentifiers /\ UNCHANGED NotHeap

Spec == Init /\ [][Next]_vars

-----------------------------------------------------------------------------
(* A caller that changes, in place, a mapping an entity holds. __init__     *)
(* stores the mapping passed as branching itself, not a copy, and the      *)
(* property branching returns that same mapping.                           *)

\* d = x.branching (or the dict passed to the constructor); d.clear();
\* d.update(items), for a ProtoReaction x the caller holds whose branching is a
\* dict.
MutateBranching ==
    \E x \in HandedProtos, items \in {b.items : b \in BranchingArgs} :
        /\ ~protoObjs[x].branching.none
        /\ protoObjs[x].branching.items # items
        /\ protoObjs' = [protoObjs EXCEPT ![x].branching = Dict(items)]
        /\ ret' = [Outcome("branching.update", "proto", NoErr, x, FALSE, NoReq)
                      EXCEPT !.src = x]
        /\ UNCHANGED <<protoMembers, reacMembers, reacObjs, prodMembers, prodObjs, handed>>

MutateNext ==
    \/ NewProtoReaction /\ UNCHANGED NotHeap
    \/ ProtoFromReaction /\ UNCHANGED NotHeap
    \/ NewReaction /\ UNCHANGED NotHeap
    \/ DeserializeProto /\ UNCHANGED NotHeap
    \/ MutateBranching /\ UNCHANGED NotHeap

SpecMutate == Init /\ [][MutateNext]_vars

-----------------------------------------------------------------------------
(* calc_target as a pure function: the inputs are drawn in the initial     *)
(* state and one step applies the function.                                *)

CalcCategories ==
    {Fission, NGamma, NP, N2N, NAlpha, ND,
     ReactionCategory(TypusNFission, {<<Alpha, 1>>}, 1),
     ReactionCategory(TypusNGamma, {<<Photon, 1>>}, 1),
     ReactionCategory("(p,n)", {<<Neutron, 1>>}, 0),
     ReactionCategory("(\\gamma,n)", {<<Neutron, 1>>}, 0),
     ReactionCategory("(d,n)", {<<Neutron, 1>>}, 0),
     ReactionCategory("(He-3,n)", {<<Neutron, 1>>}, 0),
     ReactionCategory("(n fission)", {<<Neutron, 2>>}, 0)}

CalcParents == {H1, H2, U235, Nuclide(2, 4, 0), Nuclide(6, 12, 1)}

CalcInit ==
    /\ HeapInit
    /\ world = [parent |-> H1, cat |-> NGamma, energy |-> 0]
    /\ calcIn \in [cat : CalcCategories, parent : CalcParents]
    /\ calcOut = NoCalc
    /\ thr = <<>>
    /\ thrMembers = <<>>
    /\ thrNext = 1
    /\ NoRates

\* category.calc_target(parent)
CalcTarget ==
    /\ calcOut = NoCalc
    /\ calcOut' = calc_target(calcIn.cat, calcIn.parent)
    /\ UNCHANGED <<protoMembers, protoObjs, reacMembers, reacObjs, prodMembers, prodObjs,
                   handed, world, ret, calcIn, thr, thrMembers, thrNext, rateObjs,
                   rateRet>>

CalcNext == CalcTarget

SpecCalc == CalcInit /\ [][CalcNext]_vars

-----------------------------------------------------------------------------
(* Two threads that construct an entity of one kind at the same time. The   *)
(* code of __new__ takes no lock: the lookup, the allocation and the       *)
(* insertion are separate steps, and the threads interleave between them.  *)

Threads == {1, 2}

\* The requests the threads make: per kind, arguments and their identity key.
ThreadKeys(kind) ==
    CASE kind = "proto" ->
             {ProtoKey(ProtoArgs(H1, TypusNGamma, 0, 0, 0, TRUE, b, <<>>)) :
                 b \in BranchingArgs}
      [] kind = "reac" ->
             {<<[key |-> ProtoKey(ProtoArgs(H1, TypusNGamma, 0, 0, 0, TRUE, NoneDict, <<>>)),
                 n |-> 0], t>> : t \in Targets}
      [] kind = "prod" ->
             {ProdKey(H1, H1, t) : t \in ProductionTypusArgs}

ThreadInit ==
    /\ HeapInit
    /\ world = [parent |-> H1, cat |-> NGamma, energy |-> 0]
    /\ calcIn = [cat |-> NGamma, parent |-> H1]
    /\ calcOut = NoCalc
    /\ \E kind \in {"proto", "reac", "prod"} :
          thr \in [Threads -> [pc : {"lookup"}, kind : {kind}, key : ThreadKeys(kind),
                               obj : {0}, hit : {FALSE}]]
    /\ thrMembers = <<>>
    /\ thrNext = 1
    /\ NoRates

\* `cls._members_[key] = obj`
CacheInsert(members, key, obj) == Put(members, key, obj)

\* try: return cls._members_[key]  /  except KeyError:
ThreadLookup(t) ==
    /\ thr[t].pc = "lookup"
    /\ thr' = IF thr[t].key \in DOMAIN thrMembers
              THEN [thr EXCEPT ![t].pc = "done", ![t].obj = thrMembers[thr[t].key],
                               ![t].hit = TRUE]
              ELSE [thr EXCEPT ![t].pc = "allocate"]
    /\ UNCHANGED <<thrMembers, thrNext>>

\* obj = super().__new__(cls)
ThreadAllocate(t) ==
    /\ thr[t].pc = "allocate"
    /\ thr' = [thr EXCEPT ![t].pc = "insert", ![t].obj = thrNext]
    /\ thrNext' = thrNext + 1
    /\ UNCHANGED thrMembers

\* cls._members_[key] = obj; return obj
ThreadInsert(t) ==
    /\ thr[t].pc = "insert"
    /\ thrMembers' = CacheInsert(thrMembers, thr[t].key, thr[t].obj)
    /\ thr' = [thr EXCEPT ![t].pc = "done"]
    /\ UNCHANGED thrNext

\* What the threads in __new__ leave alone.
NotThreads == <<protoMembers, protoObjs, reacMembers, reacObjs, prodMembers, prodObjs,
                handed, world, ret, calcIn, calcOut, rateObjs, rateRet>>

ThreadNext ==
    \E t \in Threads :
        \/ ThreadLookup(t) /\ UNCHANGED NotThreads
        \/ ThreadAllocate(t) /\ UNCHANGED NotThreads
        \/ ThreadInsert(t) /\ UNCHANGED NotThreads

SpecThreads == ThreadInit /\ [][ThreadNext]_vars

-----------------------------------------------------------------------------
(* The rate specification: a caller scales rates and derives rates from    *)
(* templates. The reactions the rates wrap are opaque references here.      *)

\* The number of ReactionRate objects a run allocates.
MaxRates == 3

Multipliers ==
    {Value("float", 2 * One), Value("float", 3 * One), Value("int", 2 * One),
     Value("str", 0), Value("NoneType", 0)}

RatesInit ==
    /\ HeapInit
    /\ world = [parent |-> H1, cat |-> NGamma, energy |-> 0]
    /\ calcIn = [cat |-> NGamma, parent |-> H1]
    /\ calcOut = NoCalc
    /\ thr = <<>>
    /\ thrMembers = <<>>
    /\ thrNext = 1
    /\ \E c \in Components, m \in Means, sd \in Stds,
          r \in {[key |-> <<"a">>, n |-> 0], [key |-> <<"b">>, n |-> 0]} :
          rateObjs = <<ReactionRate(c, "reac", r, m, sd)>>
    /\ rateRet = NoRateRet

\* What the operations on rates leave alone.
NotRates == <<protoMembers, protoObjs, reacMembers, reacObjs, prodMembers, prodObjs,
              handed, world, ret, calcIn, calcOut, thr, thrMembers, thrNext>>

\* rate * m for a rate the caller holds
RateMul ==
    \E self \in DOMAIN rateObjs, m \in Multipliers :
        \E r \in {Mul(rateObjs, self, m)} :
            /\ Len(r.rates) <= MaxRates
            /\ rateObjs' = r.rates
            /\ rateRet' = [NoRateRet EXCEPT !.op = "mul", !.err = r.err, !.src = self,
                                            !.new = r.new, !.before = rateObjs[self],
                                            !.m = m]

\* ReactionRate.from_other(template, mean, std) for a rate the caller holds
RateFromOther ==
    \E other \in DOMAIN rateObjs, mean \in {7 * One, 10 * One}, std \in {0, One} :
        \E r \in {FromOther(rateObjs, other, mean, std)} :
            /\ Len(r.rates) <= MaxRates
            /\ rateObjs' = r.rates
            /\ rateRet' = [NoRateRet EXCEPT !.op = "from_other", !.src = other,
                                            !.new = r.new, !.before = rateObjs[other],
                                            !.mean = mean, !.std = std]

RatesNext ==
    \/ RateMul /\ UNCHANGED NotRates
    \/ RateFromOther /\ UNCHANGED NotRates

SpecRates == RatesInit /\ [][RatesNext]_vars

-----------------------------------------------------------------------------
(* Properties. *)

ConstructorOps ==
    {"ProtoReaction", "ProtoReaction.from_reaction", "Reaction", "Reaction.from_reaction",
     "ProductionReaction", "ProductionReaction.from_reaction"}

FlyweightDeserializeOps ==
    {"ProtoReaction.deserialize", "Reaction.deserialize", "ProductionReaction.deserialize"}

\* C1: for each flyweight kind, all successful constructions with one identity
\* key have returned one and the same object, and that object == itself.
SameKeySameObject ==
    /\ \A a, b \in handed.proto :
          a[1] = b[1] => a[2] = b[2] /\ ProtoEq(protoObjs[a[2]], protoObjs[b[2]])
    /\ \A a, b \in handed.reac :
          a[1] = b[1] => a[2] = b[2] /\ ReacEq(protoObjs, reacObjs[a[2]], reacObjs[b[2]])
    /\ \A a, b \in handed.prod :
          a[1] = b[1] => a[2] = b[2] /\ ProdEq(prodObjs[a[2]], prodObjs[b[2]])

\* A ProtoReaction request has just succeeded for a key an earlier request
\* had succeeded for.
SameKeySameObjectWitness ==
    /\ ret.op \in ConstructorOps
    /\ ret.kind = "proto"
    /\ ret.err = NoErr
    /\ ret.again

\* C2: two entities of one kind that callers hold and that compare equal with
\* == are the same object.
EqualImpliesSame ==
    /\ \A a, b \in HandedProtos : ProtoEq(protoObjs[a], protoObjs[b]) => a = b
    /\ \A a, b \in HandedReacs : ReacEq(protoObjs, reacObjs[a], reacObjs[b]) => a = b
    /\ \A a, b \in HandedProds : ProdEq(prodObjs[a], prodObjs[b]) => a = b

\* Two ProtoReactions built from keys that differ in the branching only are
\* held, with a Reaction.
EqualImpliesSameWitness ==
    /\ \E a, b \in HandedProtos :
          /\ a # b
          /\ ProtoEqIgnoresBranching(protoObjs[a], protoObjs[b])
    /\ HandedReacs # {}

\* C3: a ProtoReaction request whose key an earlier request had succeeded for
\* leaves every attribute of the cached entity as it was.
CachedProtoUnchanged ==
    [][(/\ ret'.op \in {"ProtoReaction", "ProtoReaction.from_reaction"}
        /\ ret'.err = NoErr
        /\ ret'.again)
       => protoObjs'[ret'.ref] = protoObjs[ret'.ref]]_vars

\* C4: deserializing the envelope of a flyweight entity x succeeds and returns
\* x itself, which is the instance the intern cache holds for the decoded key.
DeserializeReturnsCached ==
    ret.op \in FlyweightDeserializeOps =>
        /\ ret.err = NoErr
        /\ ret.ref = ret.src
        /\ ret.kind = "proto" =>
              /\ ProtoHash(protoObjs[ret.ref]) \in DOMAIN protoMembers
              /\ protoMembers[ProtoHash(protoObjs[ret.ref])] = ret.ref
        /\ ret.kind = "reac" =>
              \E e \in reacMembers :
                  /\ e.obj = ret.ref
                  /\ e.proto = reacObjs[ret.ref].proto
                  /\ e.target = reacObjs[ret.ref].target
        /\ ret.kind = "prod" =>
              LET o == prodObjs[ret.ref]
              IN  /\ ProdKey(o.parent, o.target, o.typus) \in DOMAIN prodMembers
                  /\ prodMembers[ProdKey(o.parent, o.target, o.typus)] = ret.ref

\* A Reaction whose ProtoReaction has a non-empty branching has been
\* serialized and deserialized.
DeserializeReturnsCachedWitness ==
    /\ ret.op = "Reaction.deserialize"
    /\ ret.err = NoErr
    /\ Truthy(protoObjs[reacObjs[ret.ref].proto].branching)

RoundTripOps ==
    FlyweightDeserializeOps \cup
        {"ReactionRate.deserialize", "Particle.deserialize", "ReactionCategory.serialize"}

\* C5: for every kind of jsonable, serialize is defined and
\* deserialize(serialize(x)) == x.
RoundTripEqual == ret.op \in RoundTripOps => ret.err = NoErr /\ ret.eq

\* C6: two threads that have constructed an entity of one kind
\* with one identity key hold the same object.
ThreadsSameObject ==
    \A t, u \in Threads :
        (thr[t].pc = "done" /\ thr[u].pc = "done" /\ thr[t].key = thr[u].key)
            => thr[t].obj = thr[u].obj

\* C7: calc_target on a category with the fission tag raises
\* FissionTargetError, whatever the parent and the released particles.
FissionHasNoTarget ==
    (calcOut # NoCalc /\ calcIn.cat.typus = TypusNFission)
        => calcOut.err = "FissionTargetError"

\* calc_target has run on a fission-tagged category other than Fission itself.
FissionHasNoTargetWitness ==
    /\ calcOut # NoCalc
    /\ calcIn.cat.typus = TypusNFission
    /\ calcIn.cat # Fission

ProtoRequestOps == {"ProtoReaction", "ProtoReaction.from_reaction"}

\* C11 (as stated): every ProtoReaction request with non-empty spectra fails
\* with NotImplementedError.
SpectraAlwaysNotImplemented ==
    (ret.op \in ProtoRequestOps /\ ret.req.spectra # <<>>)
        => ret.err = "NotImplementedError"

\* C11 (amended): every ProtoReaction request with non-empty spectra fails,
\* the first and every repeated one: with NotImplementedError when the
\* branching argument is passed, with TypeError when it is omitted; and no
\* request has ever returned an entity for a key with non-empty spectra.
SpectraAlwaysRejected ==
    /\ (ret.op \in ProtoRequestOps /\ ret.req.spectra # <<>>)
          => /\ ret.err = IF ret.req.given THEN "NotImplementedError" ELSE "TypeError"
             /\ ret.ref = NoRef
    /\ (ret.op = "Reaction.from_reaction" /\ ret.req.spectra # <<>>)
          => ret.err = "NotImplementedError"
    /\ \A h \in handed.proto : h[1][7] = <<>>

\* A request with non-empty spectra has failed with NotImplementedError
\* although __new__ found its key in the cache.
SpectraAlwaysRejectedWitness ==
    /\ ret.op \in ProtoRequestOps
    /\ ret.req.spectra # <<>>
    /\ ret.hit
    /\ ret.err = "NotImplementedError"

\* C12: reading the type tag of every kind of jsonable succeeds, and the tags
\* read are pairwise distinct.
TagsDefinedAndDistinct ==
    ret.op = "jsonable.ser_identifier" =>
        /\ ret.err = NoErr
        /\ {e.kind : e \in ret.out} = Jsonable
        /\ \A e, f \in ret.out : e.tag = f.tag => e.kind = f.kind

\* C14: branches() of a ProtoReaction succeeds and yields exactly one pair per
\* entry of its branching, the interned Reaction(self, target) with the
\* entry's weight; for an empty branching it yields no pair.
ProtoBranchesPerEntry ==
    (ret.op = "branches" /\ ret.kind = "proto") =>
        /\ ret.err = NoErr
        /\ {<<reacObjs[e.reaction].target, e.weight>> : e \in ret.out}
              = FrozenItems(protoObjs[ret.src].branching)
        /\ Cardinality(ret.out) = Cardinality(FrozenItems(protoObjs[ret.src].branching))
        /\ \A e \in ret.out :
              /\ e.rkind = "reac"
              /\ reacObjs[e.reaction].proto = ret.src
              /\ \E m \in reacMembers :
                    m.obj = e.reaction /\ m.proto = ret.src
                       /\ m.target = reacObjs[e.reaction].target

ConcreteKinds == {"reac", "prod"}

MulRejectsNonNumbers ==
    [][(rateRet'.op = "mul" /\ rateRet'.m.type \notin {"float", "int", "bool"})
          => /\ rateRet'.err = "TypeError"
             /\ rateRet'.new = 0
             /\ rateObjs' = rateObjs]_vars

\* A rate has been multiplied by a string.
MulRejectsNonNumbersWitness ==
    /\ rateRet.op = "mul"
    /\ rateRet.m = Value("str", 0)
    /\ rateRet.err # NoErr

\* C20: from_other(template, mean, std) returns a new rate with the
\* template's component and reaction and the supplied mean and std; the
\* template and every other rate are as they were.
FromOtherCopies ==
    [][rateRet'.op = "from_other"
          => /\ rateRet'.new \in DOMAIN rateObjs' \ DOMAIN rateObjs
             /\ rateObjs'[rateRet'.new] =
                   ReactionRate(rateObjs[rateRet'.src].component,
                                rateObjs[rateRet'.src].rkind,
                                rateObjs[rateRet'.src].reaction,
                                rateRet'.mean, rateRet'.std)
             /\ \A i \in DOMAIN rateObjs : rateObjs'[i] = rateObjs[i]]_vars

\* A rate has been derived from a template with other statistics than the
\* template's.
FromOtherCopiesWitness ==
    /\ rateRet.op = "from_other"
    /\ rateRet.new # 0
    /\ rateRet.mean # rateRet.before.mean
    /\ rateRet.std # rateRet.before.std
    /\ rateObjs[rateRet.src] = rateRet.before



\* C18: an entry of an intern cache stays: over every step, each identity key
\* of each kind's cache is still in the cache and still yields the same
\* object, which is still on the heap.
CachePermanent ==
    [][/\ \A k \in DOMAIN protoMembers :
              /\ k \in DOMAIN protoMembers'
              /\ protoMembers'[k] = protoMembers[k]
              /\ protoMembers[k] \in DOMAIN protoObjs'
       /\ \A e \in reacMembers :
              /\ e \in reacMembers'
              /\ e.obj \in DOMAIN reacObjs'
              /\ ReacLookup(reacMembers', protoObjs', e.proto, e.target) # {}
              /\ \A f \in ReacLookup(reacMembers', protoObjs', e.proto, e.target) :
                     f.obj = e.obj
       /\ \A k \in DOMAIN prodMembers :
              /\ k \in DOMAIN prodMembers'
              /\ prodMembers'[k] = prodMembers[k]
              /\ prodMembers[k] \in DOMAIN prodObjs']_vars

\* A construction has failed on a key that was in the cache, while the caches
\* of the three kinds held entries.
CachePermanentWitness ==
    /\ ret.op \in ConstructorOps
    /\ ret.err # NoErr
    /\ ret.hit
    /\ reacMembers # {}
    /\ prodMembers # <<>>

\* C19: ProductionReaction.from_reaction(parent, category) returns the object
\* the cache holds for (parent, category.produces, category.typus), which
\* holds these three values; every ProductionReaction reports nu, energy and
\* energy_err 0 and an empty branching.
ProductionFromReactionKey ==
    /\ ret.op = "ProductionReaction.from_reaction" =>
          /\ ret.err = NoErr
          /\ \E cat \in ProductionCategoryArgs :
                LET key == ProdKey(world.parent, cat.produces, cat.typus)
                IN  /\ ret.req.target = Target(cat.produces)
                    /\ key \in DOMAIN prodMembers
                    /\ prodMembers[key] = ret.ref
                    /\ prodObjs[ret.ref] = [parent |-> world.parent,
                                            target |-> cat.produces, typus |-> cat.typus]
    /\ \A r \in DOMAIN prodObjs :
          ProdProperties(prodObjs[r]) =
              [nu |-> 0, energy |-> 0, energy_err |-> 0, branching |-> Dict({})]

\* from_reaction has returned the object an earlier request with the same
\* parent and category created, for a parent other than the product.
ProductionFromReactionKeyWitness ==
    /\ ret.op = "ProductionReaction.from_reaction"
    /\ ret.hit
    /\ ret.ref \in DOMAIN prodObjs
    /\ prodObjs[ret.ref].target # prodObjs[ret.ref].parent
\* C17: induced_by returns Neutron, Proton or Photon when the symbol between
\* the opening parenthesis and the first comma of the type tag is n, p or
\* \gamma, and raises NotImplementedError when that symbol is any other.
InducedBySymbolTable ==
    calcOut # NoCalc =>
        LET typus == TypusChars(calcIn.cat.typus)
            commas == {k \in 1..Len(typus) : typus[k] = ","}
            first == CHOOSE k \in commas : \A j \in commas : k <= j
            symbol == SubSeq(typus, 2, first - 1)
            r == induced_by(calcIn.cat)
        IN  (Len(typus) >= 1 /\ typus[1] = "(" /\ commas # {}) =>
                /\ symbol = <<"n">> => r = [err |-> NoErr, val |-> Neutron]
                /\ symbol = <<"p">> => r = [err |-> NoErr, val |-> Proton]
                /\ symbol = <<"\\", "g", "a", "m", "m", "a">> =>
                      r = [err |-> NoErr, val |-> Photon]
                /\ symbol \notin InduceDictKeys => r.err = "NotImplementedError"


\* C21: rate * m with an integer or floating point m returns a new rate with
\* the component and reaction of rate, mean = rate.mean * m and
\* std = rate.std * m, and leaves every existing rate as it was.
MulScalesNumbers ==
    [][(rateRet'.op = "mul" /\ rateRet'.m.type \in {"float", "int"})
          => /\ rateRet'.err = NoErr
             /\ rateRet'.new \in DOMAIN rateObjs' \ DOMAIN rateObjs
             /\ rateObjs'[rateRet'.new] =
                   ReactionRate(rateObjs[rateRet'.src].component,
                                rateObjs[rateRet'.src].rkind,
                                rateObjs[rateRet'.src].reaction,
                                FloatMul(rateObjs[rateRet'.src].mean, rateRet'.m.val),
                                FloatMul(rateObjs[rateRet'.src].std, rateRet'.m.val))
             /\ \A i \in DOMAIN rateObjs : rateObjs'[i] = rateObjs[i]]_vars


\* C22: expand() on a rate around a ProtoReaction whose branching is empty
\* yields no rate and raises nothing.
ExpandEmptyYieldsNothing ==
    (/\ ret.op = "expand"
     /\ ret.kind = "proto"
     /\ ~Truthy(protoObjs[ret.src].branching))
        => ret.err = NoErr /\ ret.out = {}


\* C23: two categories are equal, and hash alike, exactly when their tag and
\* target_state are equal, whatever they release; and the entity
\* ProtoReaction.from_reaction returns is the one the cache holds for the
\* request with any category of the same tag and the same other arguments.
CategoryIdentityByTag ==
    /\ \A x, y \in CalcCategories \cup SameTagCategories(world.cat) :
          /\ CategoryEq(x, y) <=> (x.typus = y.typus /\ x.target_state = y.target_state)
          /\ (CategoryHash(x) = CategoryHash(y))
                <=> (x.typus = y.typus /\ x.target_state = y.target_state)
    /\ (ret.op = "ProtoReaction.from_reaction" /\ ret.err = NoErr) =>
          \A cat \in SameTagCategories(world.cat) :
              LET key == ProtoKey(ProtoFromReactionArgs(
                             world.parent, cat, ret.req.branching, ret.req.spectra,
                             protoObjs[ret.ref].nu, world.energy,
                             protoObjs[ret.ref].energy_err))
              IN  key \in DOMAIN protoMembers /\ protoMembers[key] = ret.ref

\* from_reaction, with a category that releases other particles than the
\* category of an earlier request with the same tag, has returned the entity of
\* that request.
CategoryIdentityByTagWitness ==
    /\ ret.op = "ProtoReaction.from_reaction"
    /\ ret.err = NoErr
    /\ ret.hit
    /\ ret.again
    /\ ret.req.releases # world.cat.releases


\* C24: every Reaction reports the parent, typus, energy, energy_err, nu,
\* spectra and branching its proto has now, and holds nothing but its proto
\* and its target.
ReactionDelegatesToProto ==
    \A r \in DOMAIN reacObjs :
        /\ DOMAIN reacObjs[r] = {"proto", "target"}
        /\ reacObjs[r].proto \in DOMAIN protoObjs
        /\ \A name \in ProtoAttrs :
              ReacProperty(protoObjs, reacObjs[r], name) =
                  [err |-> NoErr, val |-> protoObjs[reacObjs[r].proto][name]]

\* There is a Reaction around a proto with energy other than 0 whose branching
\* was replaced by None after the Reaction was made.
ReactionDelegatesToProtoWitness ==
    \E r \in DOMAIN reacObjs :
        /\ protoObjs[reacObjs[r].proto].energy # 0
        /\ protoObjs[reacObjs[r].proto].branching.none
        /\ ret.op = "ProtoReaction.deserialize"
        /\ ret.src = reacObjs[r].proto


\* C25: every object in the ProtoReaction cache has all its attributes
\* assigned, and the key its attributes give is the key it is stored under.
CachedProtoMatchesKey ==
    \A k \in DOMAIN protoMembers :
        /\ protoObjs[protoMembers[k]].set = ProtoAttrs
        /\ ProtoHash(protoObjs[protoMembers[k]]) = k

\* C26: a ProtoReaction request that fails leaves the ProtoReaction cache as
\* it was.
FailedProtoRequestKeepsCache ==
    [][(ret'.op \in ProtoRequestOps /\ ret'.err # NoErr)
          => protoMembers' = protoMembers /\ protoObjs' = protoObjs]_vars

\* C27: Reaction.from_reaction that fails for want of a target leaves the
\* ProtoReaction cache and the Reaction cache as they were.
FailedFromReactionKeepsCaches ==
    [][(ret'.op = "Reaction.from_reaction" /\ ret'.err = "FissionTargetError")
          => /\ protoMembers' = protoMembers
             /\ protoObjs' = protoObjs
             /\ reacMembers' = reacMembers
             /\ reacObjs' = reacObjs]_vars


\* C27 (amended): Reaction.from_reaction that fails for want of a target
\* leaves the Reaction cache as it was; the ProtoReaction cache keeps its
\* entries and holds, under the key of the request, a proto initialised with
\* the arguments of the request; no other proto has changed.
FailedFromReactionKeepsReactions ==
    [][(ret'.op = "Reaction.from_reaction" /\ ret'.err = "FissionTargetError")
          => /\ reacMembers' = reacMembers
             /\ reacObjs' = reacObjs
             /\ \A k \in DOMAIN protoMembers :
                    k \in DOMAIN protoMembers' /\ protoMembers'[k] = protoMembers[k]
             /\ \E nu \in Nus, energy_err \in EnergyErrs :
                    LET key == ProtoKey(ProtoFromReactionArgs(
                                   world.parent, world.cat, ret'.req.branching,
                                   ret'.req.spectra, nu, world.energy, energy_err))
                    IN  /\ DOMAIN protoMembers' = DOMAIN protoMembers \cup {key}
                        /\ protoObjs'[protoMembers'[key]].set = ProtoAttrs
                        /\ ProtoHash(protoObjs'[protoMembers'[key]]) = key
                        /\ protoObjs'[protoMembers'[key]].branching
                              = OrEmpty(ret'.req.branching)
                        /\ \A r \in DOMAIN protoObjs :
                               r # protoMembers'[key] => protoObjs'[r] = protoObjs[r]]_vars

\* Reaction.from_reaction has failed for want of a target on empty caches,
\* and the ProtoReaction cache holds the proto of the request.
FailedFromReactionKeepsReactionsWitness ==
    /\ ret.op = "Reaction.from_reaction"
    /\ ret.err = "FissionTargetError"
    /\ Cardinality(DOMAIN protoMembers) = 1
    /\ \A k \in DOMAIN protoMembers : protoObjs[protoMembers[k]].set = ProtoAttrs
    /\ reacMembers = {}
    /\ reacObjs = <<>>


\* C28: a change a caller makes to the mapping it passed as branching, or to
\* the mapping the property branching returned, changes neither the branching
\* nor the hash of any ProtoReaction, and afterwards entities that compare
\* equal are still the same object.
BranchingFixed ==
    [][ret'.op = "branching.update"
          => /\ \A p \in DOMAIN protoObjs :
                    /\ protoObjs'[p].branching = protoObjs[p].branching
                    /\ ProtoHash(protoObjs'[p]) = ProtoHash(protoObjs[p])
             /\ \A a, b \in HandedProtos' :
                    ProtoEq(protoObjs'[a], protoObjs'[b]) => a = b]_vars


\* C29: iterating the branches of a ProtoReaction, directly or through
\* expand(), leaves the ProtoReaction and ProductionReaction caches and every
\* existing entity as they were and adds to the Reaction cache at most entries
\* (proto, target) for the targets of the proto's branching; constructing a
\* ProductionReaction leaves the other two caches as they were.
BranchesTouchReactionsOnly ==
    [][/\ (ret'.op \in {"branches", "expand"} /\ ret'.kind = "proto") =>
              /\ protoMembers' = protoMembers
              /\ protoObjs' = protoObjs
              /\ prodMembers' = prodMembers
              /\ prodObjs' = prodObjs
              /\ reacMembers \subseteq reacMembers'
              /\ \A e \in reacMembers' \ reacMembers :
                     /\ e.proto = ret'.src
                     /\ e.target \in {it[1] : it \in protoObjs[ret'.src].branching.items}
              /\ \A r \in DOMAIN reacObjs : reacObjs'[r] = reacObjs[r]
       /\ ret'.op \in {"ProductionReaction", "ProductionReaction.from_reaction"} =>
              /\ protoMembers' = protoMembers
              /\ protoObjs' = protoObjs
              /\ reacMembers' = reacMembers
              /\ reacObjs' = reacObjs]_vars

\* A rate around a ProtoReaction has been expanded into two rates, and the
\* Reaction cache holds the Reactions of the two branches.
BranchesTouchReactionsOnlyWitness ==
    /\ ret.op = "expand"
    /\ ret.kind = "proto"
    /\ ret.err = NoErr
    /\ Cardinality(ret.out) = 2
    /\ Cardinality({e \in reacMembers : e.proto = ret.src}) = 2
    /\ \E h \in handed.reac : h[1][1] = ret.src


\* C30: deserialize of each kind leaves the mapping it was given as it was.
DeserializeKeepsMapping ==
    ret.op \in FlyweightDeserializeOps \cup {"ReactionRate.deserialize",
                                             "Particle.deserialize"}
        => ret.kept

====
